---- MODULE Spec2Model ----
(***************************************************************************)
(* Model of the self-healing monitor (src/monitoring/monitor.py): the      *)
(* Prometheus health feed, the text editor of the nginx upstream file, the *)
(* reload trigger and the detection / restoration loop of main().          *)
(*                                                                         *)
(* Text is modelled character by character: a string is a sequence of      *)
(* one-character strings, a file is the sequence of characters on disk.    *)
(***************************************************************************)
EXTENDS Integers, Sequences, FiniteSets, TLC

(***************************************************************************)
(* Bounds of the model.                                                    *)
(***************************************************************************)
\* number of poll cycles of the loop of main() that are explored
MaxPolls == 3
\* largest value of --consecutive that is explored
MaxConsecutive == 2
\* number of editor calls explored by the editor specification
MaxCalls == 3
\* number of POST /admin/state requests that are explored
MaxRequests == 3

(***************************************************************************)
(* str helpers (Python semantics).                                         *)
(***************************************************************************)
\* characters str.strip() / str.lstrip() remove
Whitespace == {" ", "\t", "\n", "\r"}

\* s.startswith(p)
StartsWith(s, p) == Len(s) >= Len(p) /\ SubSeq(s, 1, Len(p)) = p

\* p in s
Contains(s, p) == \E i \in 0..(Len(s) - Len(p)) : SubSeq(s, i + 1, i + Len(p)) = p

\* s.lstrip()
RECURSIVE LStrip(_)
LStrip(s) == IF s # <<>> /\ Head(s) \in Whitespace THEN LStrip(Tail(s)) ELSE s

\* s.rstrip()
RECURSIVE RStrip(_)
RStrip(s) ==
    IF s # <<>> /\ s[Len(s)] \in Whitespace THEN RStrip(SubSeq(s, 1, Len(s) - 1)) ELSE s

\* s.strip()
Strip(s) == RStrip(LStrip(s))

\* "".join(lines)
RECURSIVE Join(_)
Join(lines) == IF lines = <<>> THEN <<>> ELSE Head(lines) \o Join(Tail(lines))

(***************************************************************************)
(* The upstream file: open(UPSTREAM_PATH, "r").readlines() and             *)
(* open(UPSTREAM_PATH, "w").writelines().                                  *)
(***************************************************************************)
\* a character that text mode keeps ("" stands for a dropped one)
IsKept(c) == c # ""

\* text mode, newline=None: "\r\n" and a lone "\r" are read as "\n"
UniversalNewlines(t) ==
    SelectSeq([i \in 1..Len(t) |->
                  IF t[i] = "\r" THEN "\n"
                  ELSE IF t[i] = "\n" /\ i > 1 /\ t[i - 1] = "\r" THEN ""
                  ELSE t[i]],
              IsKept)

\* the lines of a decoded text, each keeping its "\n"; the last line may have none
SplitLines(t) ==
    LET ends == {i \in 1..Len(t) : t[i] = "\n" \/ i = Len(t)}
        end(k) == CHOOSE i \in ends : Cardinality({x \in ends : x <= i}) = k
        begin(k) == IF k = 1 THEN 1 ELSE end(k - 1) + 1
    IN  [k \in 1..Cardinality(ends) |-> SubSeq(t, begin(k), end(k))]

\* f.readlines() of a file opened in text mode
readlines(text) == SplitLines(UniversalNewlines(text))

\* f.writelines(new_lines) into the truncated file ("\n" is written as os.linesep,
\* which is "\n" on the POSIX hosts the monitor runs on)
writelines(new_lines) == Join(new_lines)

\* the file on disk: whether the path can be opened, and the characters it holds
File(exists, text) == [exists |-> exists, text |-> text]

(***************************************************************************)
(* Nginx upstream manipulation.                                            *)
(***************************************************************************)
\* "server": the keyword an active entry starts with (monitor.py:78)
Keyword == <<"s", "e", "r", "v", "e", "r">>

\* "# removed-by-monitor:", the constant part of the marker (monitor.py:79, 105)
MarkerPrefix ==
    <<"#", " ", "r", "e", "m", "o", "v", "e", "d", "-", "b", "y", "-",
      "m", "o", "n", "i", "t", "o", "r", ":">>

\* f"# removed-by-monitor:{instance} "
Marker(instance) == MarkerPrefix \o instance \o <<" ">>

\* the mutant of IsActiveEntryOf that forgets the check on the line's form
IsActiveEntryOf_NoFormCheck(instance, ln) == Contains(ln, instance)

\* the test of monitor.py:78: the line names the instance and is an active entry
IsActiveEntryOf(instance, ln) ==
    /\ Contains(ln, instance)
    /\ StartsWith(Strip(ln), Keyword)
    /\ ~StartsWith(Strip(ln), <<"#">>)

\* the line written for a removed instance (monitor.py:79)
CommentedLine(instance, ln) == Marker(instance) \o LStrip(ln)

\* the mutant of IsMarkedFor that takes any marked line, whatever key it embeds
IsMarkedFor_AnyKey(instance, ln) == StartsWith(ln, MarkerPrefix)

\* the test of monitor.py:109
IsMarkedFor(instance, ln) == StartsWith(ln, Marker(instance))

\* the mutant of RestoredLine that strips the constant part of the marker only
RestoredLine_PrefixOnly(instance, ln) ==
    <<" ", " ", " ", " ">> \o SubSeq(ln, Len(MarkerPrefix) + 1, Len(ln))

\* the line written for a restored instance (monitor.py:110)
RestoredLine(instance, ln) ==
    <<" ", " ", " ", " ">> \o SubSeq(ln, Len(Marker(instance)) + 1, Len(ln))

\* the for loop of comment_server_in_upstream (monitor.py:76-82)
CommentLines(instance, lines) ==
    [i \in 1..Len(lines) |->
        IF IsActiveEntryOf(instance, lines[i])
        THEN CommentedLine(instance, lines[i]) ELSE lines[i]]

\* the for loop of restore_server_in_upstream (monitor.py:108-113)
RestoreLines(instance, lines) ==
    [i \in 1..Len(lines) |->
        IF IsMarkedFor(instance, lines[i])
        THEN RestoredLine(instance, lines[i]) ELSE lines[i]]

\* the tail shared by both editor functions (monitor.py:84-94, 115-125):
\* nothing to do, the dry run, or the rewrite of the whole file
EditResult(f, changed, new_lines, dry_run) ==
    IF ~changed THEN [ret |-> FALSE, file |-> f]
    ELSE IF dry_run THEN [ret |-> TRUE, file |-> f]
    ELSE [ret |-> TRUE, file |-> File(TRUE, writelines(new_lines))]

\* comment_server_in_upstream(instance, dry_run) on the file f:
\* the value returned and the file left on disk
comment_server_in_upstream(f, instance, dry_run) ==
    IF ~f.exists THEN [ret |-> FALSE, file |-> f]
    ELSE LET lines == readlines(f.text)
             changed == \E i \in 1..Len(lines) : IsActiveEntryOf(instance, lines[i])
         IN  EditResult(f, changed, CommentLines(instance, lines), dry_run)

\* restore_server_in_upstream(instance, dry_run) on the file f
restore_server_in_upstream(f, instance, dry_run) ==
    IF ~f.exists THEN [ret |-> FALSE, file |-> f]
    ELSE LET lines == readlines(f.text)
             changed == \E i \in 1..Len(lines) : IsMarkedFor(instance, lines[i])
         IN  EditResult(f, changed, RestoreLines(instance, lines), dry_run)

(***************************************************************************)
(* Prometheus helpers.                                                     *)
(***************************************************************************)
\* Python's None
None == [json |-> "null"]

\* a JSON envelope {status, data: {result: [...]}}
Envelope(status, result) == [json |-> "object", status |-> status, result |-> result]

\* one element of data.result: {metric: {instance, job}, value: [...]}; a label
\* that is absent (or empty) is the empty string
Item(instance, job, value) == [instance |-> instance, job |-> job, value |-> value]

\* what requests.get(...) does: it raises, answers a non-2xx status, answers a
\* body that is no JSON, or answers a JSON body
Http(kind, body) == [kind |-> kind, body |-> body]

\* a JSON body that is no object, such as [1] or []: what bool() makes of it
NonObject(truthy) == [json |-> "array", truthy |-> truthy]

\* an envelope or an item of the wrong shape: "data_null" ({"data": null}),
\* "result_null" ({"data": {"result": null}}), "metric_null" ({"metric": null}),
\* "not_object" (an item such as "x"); "none" for one of the right shape
Defect(x) == IF "defect" \in DOMAIN x THEN x.defect ELSE "none"

\* a success envelope whose data or result is null
BadEnvelope(defect) ==
    [json |-> "object", status |-> "success", result |-> <<>>, defect |-> defect]

\* an item that is no object, or whose metric is null
BadItem(defect) == [instance |-> <<>>, job |-> <<>>, value |-> <<>>, defect |-> defect]

\* "prom_json" is true in "if not prom_json" (monitor.py:51)
Truthy(prom_json) ==
    /\ prom_json.json # "null"
    /\ prom_json.json = "array" => prom_json.truthy

\* item.get or metric.get raises AttributeError (monitor.py:54-55)
ItemRaises(item) == Defect(item) # "none"

\* parse_inventory_states raises: prom_json.get on a value that is no dict
\* (monitor.py:51), .get on a null data or iteration over a null result (53),
\* or an item that raises
ParseRaises(prom_json) ==
    /\ Truthy(prom_json)
    /\ \/ prom_json.json # "object"
       \/ /\ prom_json.status = "success"
          /\ \/ Defect(prom_json) # "none"
             \/ \E i \in 1..Len(prom_json.result) : ItemRaises(prom_json.result[i])

\* query_prom: every exception of the try block is turned into None
query_prom(http) == IF http.kind = "ok" THEN http.body ELSE None

\* the try block around float(...) raised: there is no value
NoValue == [ok |-> FALSE, v |-> 0]

\* the strings the feed's gauge is written as, and the floats they stand for
NumberStrings == {"0", "1", "2"}
NumberOf == [s \in NumberStrings |-> IF s = "0" THEN 0 ELSE IF s = "1" THEN 1 ELSE 2]

\* float(s) for the value strings of the feed; ValueError for anything else
Float(s) == IF s \in NumberStrings THEN [ok |-> TRUE, v |-> NumberOf[s]] ELSE NoValue

\* float(item.get("value", [])[1]) inside its try block
ItemValue(item) == IF Len(item.value) < 2 THEN NoValue ELSE Float(item.value[2])

\* metric.get("instance") or metric.get("job")
ItemInstance(item) == IF item.instance # <<>> THEN item.instance ELSE item.job

\* out[instance] = value on an insertion-ordered dict, kept as a sequence of pairs
DictSet(out, k, v) ==
    IF \E i \in 1..Len(out) : out[i][1] = k
    THEN [i \in 1..Len(out) |-> IF out[i][1] = k THEN <<k, v>> ELSE out[i]]
    ELSE Append(out, <<k, v>>)

\* the for loop of parse_inventory_states (monitor.py:53-61)
RECURSIVE ParseItems(_, _)
ParseItems(result, out) ==
    IF result = <<>> THEN out
    ELSE LET item == Head(result)
             value == ItemValue(item)
             instance == ItemInstance(item)
         IN  ParseItems(Tail(result),
                 IF value.ok /\ instance # <<>> THEN DictSet(out, instance, value.v)
                 ELSE out)

\* the mutant of parse_inventory_states that does not look at the status
parse_inventory_states_AnyStatus(prom_json) ==
    IF ~Truthy(prom_json) THEN <<>> ELSE ParseItems(prom_json.result, <<>>)

\* parse_inventory_states, when it does not raise: {instance: value} in
\* insertion order
parse_inventory_states(prom_json) ==
    IF ~Truthy(prom_json) \/ prom_json.status # "success" THEN <<>>
    ELSE ParseItems(prom_json.result, <<>>)

(***************************************************************************)
(* The Reload Trigger.                                                     *)
(***************************************************************************)
\* what subprocess.run does in a committing reload
ReloadOutcomes == {"rc_zero", "rc_nonzero", "launch_failure"}

\* reload_nginx(dry_run): the value returned, and whether the command was run
reload_nginx(dry_run, outcome) ==
    IF dry_run THEN [ret |-> TRUE, executed |-> FALSE]
    ELSE [ret |-> (outcome = "rc_zero"), executed |-> TRUE]

(***************************************************************************)
(* The event log.                                                          *)
(***************************************************************************)
\* the entry log_event appends (the two timestamps are left out)
Event(event_type, instance, detail) ==
    [event |-> event_type, instance |-> instance, detail |-> detail]

\* log_event: events_log.append(entry)
log_event(log, event_type, instance, detail) ==
    Append(log, Event(event_type, instance, detail))

(***************************************************************************)
(* The detection / restoration loop of main().                             *)
(***************************************************************************)
\* --threshold (default 1.0): the least value that counts as degraded
DefaultThreshold == 1

\* the values of --consecutive that are explored (default 2)
Consecutives == 1..MaxConsecutive

\* dict.get(k, default)
Get(d, k, default) == IF k \in DOMAIN d THEN d[k] ELSE default

\* d[k] = v
Put(d, k, v) == [x \in (DOMAIN d) \cup {k} |-> IF x = k THEN v ELSE d[x]]

\* the state the loop owns: the two locals of main(), the event log and the file
Monitor(counters, removed, log, file) ==
    [state_counters |-> counters, removed_instances |-> removed,
     events_log |-> log, upstream |-> file]

\* what one pass of the loop body did, for the properties: the sample, whether
\* the instance was in removed_instances when the pass began, the decision taken,
\* what the editor returned, what reload_nginx did, the log's length before
Pass(inst, val, was_removed, decision, changed, reload, log_len) ==
    [inst |-> inst, val |-> val, was_removed |-> was_removed, decision |-> decision,
     changed |-> changed, reload |-> reload, log_len |-> log_len]

\* no pass of the loop body has run yet
NoPass == Pass(<<>>, 0, FALSE, "none", FALSE, "not_called", 0)

\* how a call of reload_nginx shows in a Pass
ReloadSeen(r) == IF ~r.executed THEN "dry" ELSE IF r.ret THEN "ok" ELSE "failed"

\* monitor.py:204
IsDegraded(val, thr) == val >= thr

\* the mutant of ShouldRemove that fires once, when the count reaches the threshold
ShouldRemove_OnlyAtThreshold(inst, removed, count, cons) ==
    inst \notin removed /\ count = cons

\* the mutant of ShouldRemove that forgets the removed set
ShouldRemove_NoGuard(inst, removed, count, cons) == count >= cons

\* monitor.py:207
ShouldRemove(inst, removed, count, cons) == inst \notin removed /\ count >= cons

\* the mutant of HealthyCounters that leaves the counter as it is
HealthyCounters_NoReset(counters, inst) == counters

\* the mutant of HealthyCounters that resets the counter of every instance
HealthyCounters_ResetAll(counters, inst) == [x \in DOMAIN counters |-> 0]

\* monitor.py:216-217
HealthyCounters(counters, inst) ==
    IF Get(counters, inst, 0) > 0 THEN Put(counters, inst, 0) ELSE counters

\* the mutant of RemovedAfterComment that commits whatever the editor returned
RemovedAfterComment_Always(removed, inst, changed) == removed \cup {inst}

\* monitor.py:210-212: removed_instances.add(inst) under "if changed"
RemovedAfterComment(removed, inst, changed) ==
    IF changed THEN removed \cup {inst} ELSE removed

\* the mutant of RemovedAfterRestore that unmarks whatever the editor returned
RemovedAfterRestore_Always(removed, inst, restored) == removed \ {inst}

\* monitor.py:223-225: removed_instances.discard(inst) under "if restored"
RemovedAfterRestore(removed, inst, restored) ==
    IF restored THEN removed \ {inst} ELSE removed

\* the mutant of LogAfterEdit that records the outcome event unconditionally
LogAfterEdit_Always(log, event_type, inst, changed) == log_event(log, event_type, inst, <<>>)

\* monitor.py:213 and 226: the outcome event, under "if changed" / "if restored"
LogAfterEdit(log, event_type, inst, changed) ==
    IF changed THEN log_event(log, event_type, inst, <<>>) ELSE log

\* monitor.py:205-213: the degraded branch of the loop body
DegradedBranch(m, inst, val, dry, cons, outcome) ==
    LET count == Get(m.state_counters, inst, 0) + 1
        counters == Put(m.state_counters, inst, count)
        was == inst \in m.removed_instances
    IN  IF ShouldRemove(inst, m.removed_instances, count, cons)
        THEN LET log1 == log_event(m.events_log, "DEGRADATION_CONFIRMED", inst,
                                   <<"value", val, "count", count>>)
                 ed == comment_server_in_upstream(m.upstream, inst, dry)
                 rl == reload_nginx(dry, outcome)
             IN  [m |-> Monitor(counters,
                                RemovedAfterComment(m.removed_instances, inst, ed.ret),
                                LogAfterEdit(log1, "REMOVED_FROM_UPSTREAM", inst, ed.ret),
                                ed.file),
                  pass |-> Pass(inst, val, was, "remove", ed.ret,
                                IF ed.ret THEN ReloadSeen(rl) ELSE "not_called",
                                Len(m.events_log))]
        ELSE [m |-> Monitor(counters, m.removed_instances, m.events_log, m.upstream),
              pass |-> Pass(inst, val, was, "none", FALSE, "not_called",
                            Len(m.events_log))]

\* monitor.py:214-226: the healthy branch of the loop body
HealthyBranch(m, inst, val, dry, outcome) ==
    LET counters == HealthyCounters(m.state_counters, inst)
        was == inst \in m.removed_instances
    IN  IF inst \in m.removed_instances
        THEN LET log1 == log_event(m.events_log, "HEALTHY_AGAIN", inst, <<"value", val>>)
                 ed == restore_server_in_upstream(m.upstream, inst, dry)
                 rl == reload_nginx(dry, outcome)
             IN  [m |-> Monitor(counters,
                                RemovedAfterRestore(m.removed_instances, inst, ed.ret),
                                LogAfterEdit(log1, "RESTORED_TO_UPSTREAM", inst, ed.ret),
                                ed.file),
                  pass |-> Pass(inst, val, was, "restore", ed.ret,
                                IF ed.ret THEN ReloadSeen(rl) ELSE "not_called",
                                Len(m.events_log))]
        ELSE [m |-> Monitor(counters, m.removed_instances, m.events_log, m.upstream),
              pass |-> Pass(inst, val, was, "none", FALSE, "not_called",
                            Len(m.events_log))]

\* monitor.py:202-226: one pass of "for inst, val in states.items()"
LoopBody(m, inst, val, dry, thr, cons, outcome) ==
    IF IsDegraded(val, thr)
    THEN DegradedBranch(m, inst, val, dry, cons, outcome)
    ELSE HealthyBranch(m, inst, val, dry, outcome)

(***************************************************************************)
(* The events file and the ends of main().                                 *)
(***************************************************************************)
\* json.dump(events_log, f, indent=2): one JSON array, the entries in list order
Dump(log) == [json |-> "array", items |-> log]

\* there is no events file
Absent == [json |-> "absent"]

\* an events file that open(..., "w") emptied and json.dump did not complete
Truncated == [json |-> "truncated"]

\* how open(args.events_file, "w") and json.dump end
FlushOutcomes == {"ok", "open_fails", "write_fails"}

\* monitor.py:183-189 and 233-239: "if events_log:", then the write inside
\* "try ... except Exception"; writes counts the attempts to write the file
SaveEvents(log, events_file, outcome) ==
    IF log = <<>> THEN [file |-> events_file, writes |-> 0]
    ELSE IF outcome = "ok" THEN [file |-> Dump(log), writes |-> 1]
    ELSE IF outcome = "open_fails" THEN [file |-> events_file, writes |-> 1]
    ELSE [file |-> Truncated, writes |-> 1]

\* the mutant of CaughtByLoop whose except clause takes every exception
CaughtByLoop_Any(exc) == TRUE

\* monitor.py:230: "except KeyboardInterrupt" around the while loop
CaughtByLoop(exc) == exc = "KeyboardInterrupt"

\* what follows an exception that leaves the while loop (monitor.py:230-245):
\* caught, the events are saved and main() returns 0; otherwise the exception
\* leaves main(), a SystemExit(0) ending the process with status 0 and any
\* other exception with a traceback and status 1
LeaveLoop(exc, log, events_file, outcome) ==
    IF CaughtByLoop(exc)
    THEN LET s == SaveEvents(log, events_file, outcome)
         IN  [file |-> s.file, writes |-> s.writes, code |-> 0]
    ELSE [file |-> events_file, writes |-> 0, code |-> IF exc = "SystemExit" THEN 0 ELSE 1]

\* the process: status "running" or "exited"; the exit code; the exception that
\* ended it and the function that raised it; where in the loop body it was
\* raised; the events file now and when main() began; the attempts to write it
\* and how the write of the signal handler ended
Proc(status, code, exc, raised_by, cut, events_file, prior, flushes, saved) ==
    [status |-> status, code |-> code, exc |-> exc, raised_by |-> raised_by, cut |-> cut,
     events_file |-> events_file, prior |-> prior, flushes |-> flushes, saved |-> saved]

\* main() has installed its handlers (monitor.py:192-193) and runs
Started(prior) == Proc("running", 0, "none", "none", "none", prior, prior, 0, "none")

\* no process of main()
NoProc == Proc("none", 0, "none", "none", "none", Absent, Absent, 0, "none")

\* the process after exc, raised by raised_by at cut, left the loop with the
\* events log; a SystemExit comes from _save_and_exit (monitor.py:181-190), which
\* saved the events before it raised
Ended(p, exc, raised_by, cut, log, outcome) ==
    LET h == IF exc = "SystemExit" THEN SaveEvents(log, p.events_file, outcome)
             ELSE [file |-> p.events_file, writes |-> 0]
        l == LeaveLoop(exc, log, h.file, outcome)
    IN  Proc("exited", l.code, exc, raised_by, cut, l.file, p.prior,
             h.writes + l.writes, IF exc = "SystemExit" THEN outcome ELSE "none")

\* the points of a deciding pass of the loop body at which an exception can be
\* raised: after the decision event was logged (monitor.py:208, 221); after
\* open(UPSTREAM_PATH, "w") emptied the file (91, 122); after the editor
\* returned True (209, 222); after removed_instances was updated (212, 225)
Cuts == {"logged", "truncated", "written", "flagged"}

\* the pass on (inst, val) takes a decision
Decides(m, inst, val, thr, cons) ==
    IF IsDegraded(val, thr)
    THEN ShouldRemove(inst, m.removed_instances, Get(m.state_counters, inst, 0) + 1, cons)
    ELSE inst \in m.removed_instances

\* the editor call of the pass on (inst, val)
EditorOf(m, inst, val, dry, thr) ==
    IF IsDegraded(val, thr) THEN comment_server_in_upstream(m.upstream, inst, dry)
    ELSE restore_server_in_upstream(m.upstream, inst, dry)

\* the pass on (inst, val) gets as far as cut
Reaches(m, inst, val, dry, thr, cons, cut) ==
    /\ Decides(m, inst, val, thr, cons)
    /\ \/ cut = "logged"
       \/ /\ EditorOf(m, inst, val, dry, thr).ret
          /\ cut = "truncated" => ~dry

\* the file after open(UPSTREAM_PATH, "w") and before any of the new text
EmptiedFile == File(TRUE, <<>>)

\* what the loop body (monitor.py:202-226) has done when it is left at cut
PartialBody(m, inst, val, dry, thr, cons, cut) ==
    LET degraded == IsDegraded(val, thr)
        count == Get(m.state_counters, inst, 0) + 1
        counters == IF degraded THEN Put(m.state_counters, inst, count)
                    ELSE HealthyCounters(m.state_counters, inst)
        log1 == IF degraded
                THEN log_event(m.events_log, "DEGRADATION_CONFIRMED", inst,
                               <<"value", val, "count", count>>)
                ELSE log_event(m.events_log, "HEALTHY_AGAIN", inst, <<"value", val>>)
        ed == EditorOf(m, inst, val, dry, thr)
        removed == IF degraded THEN RemovedAfterComment(m.removed_instances, inst, ed.ret)
                   ELSE RemovedAfterRestore(m.removed_instances, inst, ed.ret)
    IN  IF cut = "logged" THEN Monitor(counters, m.removed_instances, log1, m.upstream)
        ELSE IF cut = "truncated"
        THEN Monitor(counters, m.removed_instances, log1, EmptiedFile)
        ELSE IF cut = "written" THEN Monitor(counters, m.removed_instances, log1, ed.file)
        ELSE Monitor(counters, removed, log1, ed.file)

\* what stops open() on the upstream file: no permission to read it
\* (PermissionError at monitor.py:68, 99), no permission to write it (91, 122),
\* no space left for the new text (OSError at 92, 123)
FsFaults == {"unreadable", "unwritable", "disk_full"}

\* the point of the pass at which the fault raises
FaultCut(fault) == IF fault = "disk_full" THEN "truncated" ELSE "logged"

\* the fault raises in the pass on (inst, val): the editor is called on a file
\* that is there, and for a fault of writing it gets as far as writing
FaultRaises(m, inst, val, dry, thr, cons, fault) ==
    /\ Decides(m, inst, val, thr, cons)
    /\ m.upstream.exists
    /\ fault # "unreadable" => (~dry /\ EditorOf(m, inst, val, dry, thr).ret)

(***************************************************************************)
(* The monitored service (microservicio_inventario/app.py).                *)
(***************************************************************************)
\* app.py:10: the keys of STATE_VALUES
StateNames == {"healthy", "degraded", "down"}

\* app.py:10
STATE_VALUES ==
    [s \in StateNames |-> IF s = "healthy" THEN 0 ELSE IF s = "degraded" THEN 1 ELSE 2]

\* one request thread: where it is, the state it was asked to set, the status
\* of its last response (0: none yet)
Thread(at, new_state, status) == [at |-> at, new_state |-> new_state, status |-> status]

\* the service: service_state["value"], the value of the gauge SERVICE_STATE,
\* the holder of state_lock, the request threads, the requests served
App(state, gauge, lock, threads, served) ==
    [service_state |-> state, SERVICE_STATE |-> gauge, state_lock |-> lock,
     threads |-> threads, served |-> served]

\* no service
NoApp == App("none", 0, "free", <<>>, 0)

(***************************************************************************)
(* The inputs that are explored: instance keys, upstream files, responses  *)
(* of the metrics backend.                                                 *)
(***************************************************************************)
\* three instance keys; the first is a prefix of the second
Key1 == <<"s", "1">>
Key10 == <<"s", "1", "0">>
Key2 == <<"s", "2">>

Indent4 == <<" ", " ", " ", " ">>
LF == <<"\n">>
CRLF == <<"\r", "\n">>

\* an active entry "<indent>server <key>;<eol>"
ServerLine(indent, key, eol) == indent \o Keyword \o <<" ">> \o key \o <<";">> \o eol

BlockOpen == <<"u", "p", " ", "{", "\n">>
BlockClose == <<"}", "\n">>

\* an upstream block with one entry for a and one for b
UpstreamConf(a, b) ==
    BlockOpen \o ServerLine(Indent4, a, LF) \o ServerLine(Indent4, b, LF) \o BlockClose

\* the answers of the backend about the instances a and b: failures, an error
\* envelope, and success envelopes (absent instances, both orders, the job label
\* as fallback, a value that is no number, a missing label, a repeated instance)
Sample(a, v) == Item(a, <<>>, <<"1700000000", v>>)

FeedAnswers(a, b) ==
    { Http("transport_error", None),
      Http("http_error", None),
      Http("ok", Envelope("error", <<Sample(a, "1"), Sample(b, "0")>>)),
      Http("ok", Envelope("success", <<>>)),
      Http("ok", Envelope("success", <<Sample(a, "0")>>)),
      Http("ok", Envelope("success", <<Sample(a, "1")>>)),
      Http("ok", Envelope("success", <<Sample(b, "0")>>)),
      Http("ok", Envelope("success", <<Sample(b, "2")>>)),
      Http("ok", Envelope("success", <<Sample(a, "0"), Sample(b, "0")>>)),
      Http("ok", Envelope("success", <<Sample(a, "1"), Sample(b, "0")>>)),
      Http("ok", Envelope("success", <<Sample(a, "1"), Sample(b, "1")>>)),
      Http("ok", Envelope("success", <<Sample(b, "1"), Sample(a, "0")>>)),
      Http("ok", Envelope("success", <<Item(<<>>, a, <<"1700000000", "1">>)>>)),
      Http("ok", Envelope("success", <<Sample(a, "NaN?"), Item(<<>>, <<>>, <<"0", "1">>),
                                       Item(b, <<>>, <<"0">>)>>)),
      Http("ok", Envelope("success", <<Sample(a, "0"), Sample(a, "1")>>)) }

\* how a query ended, as the properties name it
FeedKind(http) ==
    IF http.kind # "ok" THEN http.kind
    ELSE IF http.body.json # "object" THEN "not_object"
    ELSE IF http.body.status # "success" THEN "not_success" ELSE "success"

(***************************************************************************)
(* State.                                                                  *)
(***************************************************************************)
VARIABLES
    args,               \* the parsed options: dry_run, consecutive, threshold
    state_counters,     \* main(): consecutive degraded polls per instance
    removed_instances,  \* main(): instances currently removed from the upstream
    events_log,         \* the module's events_log
    upstream,           \* the file at UPSTREAM_PATH
    states,             \* the items of states.items() the for loop has yet to visit
    pc,                 \* where main() is: "query" or "loop"
    polls,              \* poll cycles begun
    feed,               \* how the query of the current cycle ended
    run,                \* per instance, the length of its current run of degraded samples
    last,               \* the last pass of the loop body
    twin,               \* a second run fed the same inputs, always committing
    calls,              \* the editor calls made so far, with what each returned
    proc,               \* the process of main(): running or exited, and the events file
    app                 \* the monitored service: its state, its gauge, its requests

vars == <<args, state_counters, removed_instances, events_log, upstream, states, pc,
          polls, feed, run, last, twin, calls, proc, app>>

\* the loop's state as one record
Mon == Monitor(state_counters, removed_instances, events_log, upstream)

\* no second run
NoTwin == Monitor(<<>>, {}, <<>>, File(FALSE, <<>>))

Args(dry_run, consecutive, threshold) ==
    [dry_run |-> dry_run, consecutive |-> consecutive, threshold |-> threshold]

(***************************************************************************)
(* The monitor: main() polling two instances whose keys overlap.           *)
(***************************************************************************)
\* the file the monitor starts with: one entry for "s1", one for "s10"
MonitorFile == File(TRUE, UpstreamConf(Key1, Key10))

Init ==
    /\ args \in {Args(d, c, DefaultThreshold) : d \in BOOLEAN, c \in Consecutives}
    /\ state_counters = <<>>
    /\ removed_instances = {}
    /\ events_log = <<>>
    /\ upstream = MonitorFile
    /\ states = <<>>
    /\ pc = "query"
    /\ polls = 0
    /\ feed = "none"
    /\ run = <<>>
    /\ last = NoPass
    /\ twin = NoTwin
    /\ calls = <<>>
    /\ proc = NoProc
    /\ app = NoApp

\* monitor.py:198-199: the query and its parsing, the backend answering one of answers
PollFrom(answers) ==
    /\ pc = "query"
    /\ polls < MaxPolls
    /\ \E http \in answers :
          /\ states' = parse_inventory_states(query_prom(http))
          /\ feed' = FeedKind(http)
    /\ pc' = "loop"
    /\ polls' = polls + 1
    /\ UNCHANGED <<args, state_counters, removed_instances, events_log, upstream, run, last,
                   twin, calls, proc, app>>

\* the answers about the two instances the monitor polls
MonitorAnswers == FeedAnswers(Key1, Key10)

Poll == PollFrom(MonitorAnswers)

\* monitor.py:202-226: the loop body on the next item of states.items(), the
\* reload command ending as outcome
PassOver(outcome) ==
    /\ pc = "loop"
    /\ states # <<>>
    /\ LET inst == Head(states)[1]
           val == Head(states)[2]
           r == LoopBody(Mon, inst, val, args.dry_run, args.threshold,
                         args.consecutive, outcome)
       IN  /\ state_counters' = r.m.state_counters
           /\ removed_instances' = r.m.removed_instances
           /\ events_log' = r.m.events_log
           /\ upstream' = r.m.upstream
           /\ last' = r.pass
           /\ run' = Put(run, inst, IF val >= args.threshold
                                    THEN Get(run, inst, 0) + 1 ELSE 0)
    /\ states' = Tail(states)
    /\ UNCHANGED <<args, pc, polls, feed, calls, proc, app>>

Iterate == \E outcome \in ReloadOutcomes : PassOver(outcome) /\ UNCHANGED twin

\* monitor.py:228: the for loop is over, time.sleep(poll_interval)
Sleep ==
    /\ pc = "loop"
    /\ states = <<>>
    /\ pc' = "query"
    /\ UNCHANGED <<args, state_counters, removed_instances, events_log, upstream, states,
                   polls, feed, run, last, twin, calls, proc, app>>

\* the environment: the upstream file cannot be opened for a while (monitor.py:70)
UpstreamVanishes ==
    /\ upstream.exists
    /\ upstream' = File(FALSE, upstream.text)
    /\ UNCHANGED <<args, state_counters, removed_instances, events_log, states, pc, polls,
                   feed, run, last, twin, calls, proc, app>>

\* the environment: the upstream file is back, with the content it had
UpstreamReturns ==
    /\ ~upstream.exists
    /\ upstream' = File(TRUE, upstream.text)
    /\ UNCHANGED <<args, state_counters, removed_instances, events_log, states, pc, polls,
                   feed, run, last, twin, calls, proc, app>>

Next == Poll \/ Iterate \/ Sleep \/ UpstreamVanishes \/ UpstreamReturns

Spec == Init /\ [][Next]_vars

(***************************************************************************)
(* Properties of the loop (specification Spec).                            *)
(***************************************************************************)
\* a pass of the loop body has run
Passed == last.inst # <<>>

\* the length of the run of degraded samples the last pass ended
LastRun == Get(run, last.inst, 0)

\* the events the last pass appended
Appended == SubSeq(events_log, last.log_len + 1, Len(events_log))

\* the events of a kind that the last pass appended for its instance
AppendedOf(kind) ==
    {i \in 1..Len(Appended) : Appended[i].event = kind /\ Appended[i].instance = last.inst}

\* the last pass took no decision: no event, no editor call, no reload
NoDecision ==
    last.decision = "none" /\ Appended = <<>> /\ ~last.changed /\ last.reload = "not_called"

\* C1 as stated: after every pass on a degraded sample, a run shorter than c
\* leaves the instance undecided and unremoved, the c-th degraded poll takes the
\* remove decision, and no later poll of the run takes it again, whatever the
\* editor returned.
C1_Original ==
    (Passed /\ IsDegraded(last.val, args.threshold)) =>
        /\ LastRun < args.consecutive =>
              (NoDecision /\ last.inst \notin removed_instances)
        /\ LastRun = args.consecutive => last.decision = "remove"
        /\ LastRun > args.consecutive => NoDecision

\* C1 as amended: no remove decision below c consecutive degraded samples; at c
\* or more the decision is taken exactly when the instance is not marked removed,
\* with one DEGRADATION_CONFIRMED and one disable call; the instance becomes
\* marked exactly when disable returned true, and a marked instance gets no
\* further remove decision and stays marked while it is degraded.
C1_Hysteresis ==
    (Passed /\ IsDegraded(last.val, args.threshold)) =>
        /\ LastRun >= 1
        /\ last.decision # "restore"
        /\ last.decision = "remove" <=>
              (LastRun >= args.consecutive /\ ~last.was_removed)
        /\ last.decision = "remove" =>
              /\ Cardinality(AppendedOf("DEGRADATION_CONFIRMED")) = 1
              /\ last.inst \in removed_instances <=> last.changed
        /\ last.decision = "none" =>
              /\ NoDecision
              /\ last.inst \in removed_instances <=> last.was_removed

\* C1's case: with c = 2, the third degraded poll of a removed instance passes
\* without a second decision
C1_Witness ==
    /\ Passed /\ args.consecutive = 2 /\ LastRun = 3
    /\ last.was_removed /\ NoDecision
    /\ Len(events_log) = 2 /\ events_log[2].event = "REMOVED_FROM_UPSTREAM"

\* C2 as stated: a healthy sample leaves the counter at 0, and for an instance
\* marked removed it is the one restoration of the episode: one HEALTHY_AGAIN,
\* after which the instance is not marked removed.
C2_Original ==
    (Passed /\ ~IsDegraded(last.val, args.threshold)) =>
        /\ Get(state_counters, last.inst, 0) = 0
        /\ last.was_removed =>
              /\ last.decision = "restore"
              /\ Cardinality(AppendedOf("HEALTHY_AGAIN")) = 1
              /\ last.inst \notin removed_instances
        /\ ~last.was_removed => NoDecision

\* C2 as amended: a healthy sample leaves the counter at 0; for an instance
\* marked removed it takes one restore decision (one HEALTHY_AGAIN, one enable
\* call), and the instance stops being marked exactly when enable returned true;
\* an instance that is not marked gets no restore decision.
C2_Recovery ==
    (Passed /\ ~IsDegraded(last.val, args.threshold)) =>
        /\ LastRun = 0
        /\ Get(state_counters, last.inst, 0) = 0
        /\ last.was_removed =>
              /\ last.decision = "restore"
              /\ Cardinality(AppendedOf("HEALTHY_AGAIN")) = 1
              /\ last.inst \notin removed_instances <=> last.changed
        /\ ~last.was_removed =>
              (NoDecision /\ last.inst \notin removed_instances)

\* C2's case: a healthy sample of a removed instance, after two degraded ones,
\* restored it
C2_Witness ==
    /\ Passed /\ ~IsDegraded(last.val, args.threshold)
    /\ last.was_removed /\ last.changed /\ last.inst \notin removed_instances
    /\ Len(events_log) = 4 /\ events_log[1].detail = <<"value", 1, "count", 2>>
    /\ Get(state_counters, last.inst, 1) = 0

\* the step is a pass of the loop body over the instance it records
IsPass == pc = "loop" /\ states # <<>> /\ last'.inst = Head(states)[1]

\* C3: removed_instances changes only in a pass whose editor call returned
\* true, and then by the one instance of that pass: added by a remove decision,
\* discarded by a restore decision; a pass whose edit returned false leaves the
\* set as it was.
C3_FlagFollowsEdit ==
    [][ /\ removed_instances' # removed_instances =>
            /\ IsPass
            /\ last'.changed
            /\ \/ /\ last'.decision = "remove"
                  /\ last'.inst \notin removed_instances
                  /\ removed_instances' = removed_instances \cup {last'.inst}
               \/ /\ last'.decision = "restore"
                  /\ last'.inst \in removed_instances
                  /\ removed_instances' = removed_instances \ {last'.inst}
        /\ (IsPass /\ ~last'.changed) => removed_instances' = removed_instances
      ]_vars

\* C3's case: a remove decision whose edit returned false (the file is there but
\* holds no active entry of the instance) left the instance unmarked
C3_Witness ==
    /\ Passed /\ last.decision = "remove" /\ ~last.changed
    /\ upstream.exists
    /\ last.inst \notin removed_instances /\ removed_instances # {}

\* C4: every remove (restore) decision appends DEGRADATION_CONFIRMED
\* (HEALTHY_AGAIN) first, whatever the edit and the reload do after it, and
\* REMOVED_FROM_UPSTREAM (RESTORED_TO_UPSTREAM) follows exactly when the editor
\* call of that pass returned true; a pass without a decision appends nothing.
C4_EventRule ==
    Passed =>
        LET first == IF last.decision = "remove" THEN "DEGRADATION_CONFIRMED"
                     ELSE "HEALTHY_AGAIN"
            second == IF last.decision = "remove" THEN "REMOVED_FROM_UPSTREAM"
                      ELSE "RESTORED_TO_UPSTREAM"
        IN  IF last.decision = "none" THEN Appended = <<>>
            ELSE /\ Len(Appended) = (IF last.changed THEN 2 ELSE 1)
                 /\ Appended[1].event = first /\ Appended[1].instance = last.inst
                 /\ last.changed =>
                       (Appended[2].event = second /\ Appended[2].instance = last.inst)
                 /\ last.changed <=> last.reload # "not_called"

\* C4's case: the edit succeeded, the reload failed, both events are recorded
C4_Witness ==
    /\ Passed /\ last.decision = "remove" /\ last.changed /\ last.reload = "failed"
    /\ events_log[Len(events_log)].event = "REMOVED_FROM_UPSTREAM"

\* how a query that failed ends
FailedFeeds == {"transport_error", "http_error", "not_success"}

\* C5: the steps of the loop in a cycle whose query failed (transport error,
\* non-2xx answer, status other than "success") find nothing to iterate over and
\* leave the counters, the removed set, the file and the event log as they were.
C5_FailedQuery ==
    [][ (/\ feed' \in FailedFeeds
         /\ <<pc, states, polls>>' # <<pc, states, polls>>) =>
            /\ states' = <<>>
            /\ UNCHANGED <<state_counters, removed_instances, upstream, events_log, last>>
      ]_vars

\* C5's case: a cycle whose answer was an error envelope has ended, while an
\* instance is removed
C5_Witness ==
    /\ feed = "not_success" /\ pc = "query" /\ polls = 2
    /\ removed_instances # {} /\ events_log # <<>>

(***************************************************************************)
(* The editor alone: sequences of comment_server_in_upstream and           *)
(* restore_server_in_upstream calls on a file drawn from EditorFiles, all  *)
(* with the same dry_run; twin.upstream is the file of the same sequence   *)
(* of calls made with dry_run=False.                                       *)
(***************************************************************************)
EditorKeys == {Key1, Key10, Key2}

\* "\tserver s1;\r\n server s2;": tabs, CRLF line ends, no newline at the end
ConfCRLF == ServerLine(<<"\t">>, Key1, CRLF) \o ServerLine(<<" ">>, Key2, <<>>)

\* a file that already holds a marked line, a comment that names an instance and
\* an entry that names another instance after its own address
ConfMarked ==
    Marker(Key2) \o ServerLine(<<>>, Key2, LF)
    \o <<"#", " ">> \o Key1 \o LF
    \o ServerLine(<<" ", " ">>, Key1, LF)
    \o <<" ">> \o Keyword \o <<" ">> \o Key10 \o <<";", " ", "#">> \o Key2 \o LF

EditorFiles ==
    { MonitorFile,
      File(TRUE, UpstreamConf(Key2, Key10)),
      File(TRUE, ConfCRLF),
      File(TRUE, ConfMarked),
      File(TRUE, BlockOpen \o BlockClose),
      File(FALSE, UpstreamConf(Key1, Key10)) }

\* one editor call as the properties see it
Call(op, key, dry_run, ret, before, after, twin_ret, twin_before, twin_after) ==
    [op |-> op, key |-> key, dry_run |-> dry_run, ret |-> ret, before |-> before,
     after |-> after, twin_ret |-> twin_ret, twin_before |-> twin_before,
     twin_after |-> twin_after]

\* the editor function an operation names
EditorCall(op, f, instance, dry_run) ==
    IF op = "disable" THEN comment_server_in_upstream(f, instance, dry_run)
    ELSE restore_server_in_upstream(f, instance, dry_run)

EditorInit ==
    /\ args \in {Args(d, 1, DefaultThreshold) : d \in BOOLEAN}
    /\ upstream \in EditorFiles
    /\ twin = Monitor(<<>>, {}, <<>>, upstream)
    /\ calls = <<>>
    /\ proc = NoProc
    /\ app = NoApp
    /\ state_counters = <<>>
    /\ removed_instances = {}
    /\ events_log = <<>>
    /\ states = <<>>
    /\ pc = "editor"
    /\ polls = 0
    /\ feed = "none"
    /\ run = <<>>
    /\ last = NoPass

\* one call of op(instance, dry_run=args.dry_run), and the same call committing on
\* the twin's file
Edit(op, instance) ==
    /\ pc = "editor"
    /\ Len(calls) < MaxCalls
    /\ LET r == EditorCall(op, upstream, instance, args.dry_run)
           t == EditorCall(op, twin.upstream, instance, FALSE)
       IN  /\ upstream' = r.file
           /\ twin' = [twin EXCEPT !.upstream = t.file]
           /\ calls' = Append(calls, Call(op, instance, args.dry_run, r.ret, upstream,
                                          r.file, t.ret, twin.upstream, t.file))
    /\ UNCHANGED <<args, state_counters, removed_instances, events_log, states, pc, polls,
                   feed, run, last, proc, app>>

Disable == \E k \in EditorKeys : Edit("disable", k)

Enable == \E k \in EditorKeys : Edit("enable", k)

EditorNext == Disable \/ Enable

EditorSpec == EditorInit /\ [][EditorNext]_vars

(***************************************************************************)
(* Properties of the editor (specification EditorSpec).                    *)
(***************************************************************************)
\* the lines of a file as readlines() returns them
LinesOf(f) == readlines(f.text)

\* calls i and i+1 were both made committing, on the same key
CommittingPair(i, op1, op2) ==
    /\ i + 1 <= Len(calls)
    /\ calls[i].op = op1 /\ calls[i + 1].op = op2
    /\ calls[i].key = calls[i + 1].key
    /\ ~calls[i].dry_run /\ ~calls[i + 1].dry_run

\* C6: of two committing disable calls on the same key, one right after the
\* other, the second returns false and leaves the file as the first left it.
C6_IdempotentDisable ==
    \A i \in 1..Len(calls) :
        CommittingPair(i, "disable", "disable") =>
            /\ ~calls[i + 1].ret
            /\ calls[i + 1].after = calls[i].after

\* C6's case: the first disable rewrote the file, the second found nothing to do
C6_Witness ==
    /\ CommittingPair(1, "disable", "disable")
    /\ calls[1].ret /\ calls[1].after # calls[1].before
    /\ ~calls[2].ret /\ upstream = calls[1].after

\* no line of the file holds the marker string "# removed-by-monitor:"
MarkerFree(f) == \A j \in 1..Len(LinesOf(f)) : ~Contains(LinesOf(f)[j], MarkerPrefix)

C8_Original ==
    \A i \in 1..Len(calls) :
        calls[i].dry_run =>
            /\ calls[i].after = calls[i].before
            /\ calls[i].ret = calls[i].twin_ret

\* s.endswith(p)
EndsWith(s, p) == Len(s) >= Len(p) /\ SubSeq(s, Len(s) - Len(p) + 1, Len(s)) = p

\* the line is the entry of the instance k, active or marked
IsEntryLineOf(k, ln) == EndsWith(ln, Keyword \o <<" ">> \o k \o <<";", "\n">>)

\* C9 as stated: on the file with one entry for "s1" and one for "s10", a
\* committing call on one key leaves the entry line of every other key as it was.
C9_Original ==
    \A i \in 1..Len(calls) :
        (/\ ~calls[i].dry_run
         /\ calls[1].before = MonitorFile) =>
            \A k \in EditorKeys \ {calls[i].key} :
                \A j \in 1..Len(LinesOf(calls[i].before)) :
                    IsEntryLineOf(k, LinesOf(calls[i].before)[j]) =>
                        /\ j <= Len(LinesOf(calls[i].after))
                        /\ LinesOf(calls[i].after)[j] = LinesOf(calls[i].before)[j]

\* the key occurs somewhere in the text of the file
KeyOccurs(f, key) == f.exists /\ Contains(f.text, key)

\* C13: a call of disable or enable with a key that does not occur in the file
\* returns false and leaves the file as it was, committing or not.
C13_UnknownInstance ==
    \A i \in 1..Len(calls) :
        ~KeyOccurs(calls[i].before, calls[i].key) =>
            /\ ~calls[i].ret
            /\ calls[i].after = calls[i].before

\* C13's case: the file holds the marked line of "s1" and an active entry of
\* "s10"; enable and disable of "s2", which the file does not name, find nothing
C13_Witness ==
    /\ Len(calls) = 3
    /\ calls[1].op = "disable" /\ calls[1].key = Key1 /\ calls[1].ret
    /\ calls[1].before = MonitorFile /\ ~calls[1].dry_run
    /\ calls[2].op = "enable" /\ calls[2].key = Key2 /\ ~calls[2].ret
    /\ calls[3].op = "disable" /\ calls[3].key = Key2 /\ ~calls[3].ret
    /\ ~KeyOccurs(calls[2].before, Key2)
    /\ upstream = calls[1].after

(***************************************************************************)
(* Further properties of the loop (specification Spec).                    *)
(***************************************************************************)
\* the instance keys a poll can name
PolledKeys == {Key1, Key10, Key2}

\* the events of a log that name the instance k
EventsOf(log, k) == SelectSeq(log, LAMBDA e : e.instance = k)

\* the step leaves everything the loop keeps about the instance k as it was:
\* its counter, its removed flag, its events, and the step is no pass for k
Frozen(k) ==
    /\ (k \in DOMAIN state_counters') = (k \in DOMAIN state_counters)
    /\ Get(state_counters', k, 0) = Get(state_counters, k, 0)
    /\ (k \in removed_instances') = (k \in removed_instances)
    /\ EventsOf(events_log', k) = EventsOf(events_log, k)
    /\ (last' # last => last'.inst # k)

\* C14: in every step, an instance other than the one whose sample the loop
\* body is handling keeps its counter and its removed flag, and gets no event
\* and no editor call; an instance absent from the batch is never the one handled.
C14_FrozenAbsent ==
    [][\A k \in PolledKeys :
          \/ pc = "loop" /\ states # <<>> /\ Head(states)[1] = k
          \/ Frozen(k)]_vars

\* C14's case: "s10" was counted once in the first cycle and is absent from the
\* second, in which "s1" reaches the threshold and is decided upon
C14_Witness ==
    /\ polls = 2 /\ pc = "loop" /\ states = <<>>
    /\ args.consecutive = 2
    /\ last.inst = Key1 /\ last.decision = "remove"
    /\ Get(state_counters, Key1, 0) = 2
    /\ Get(state_counters, Key10, 0) = 1
    /\ Key10 \notin removed_instances

\* the file holds a line that starts with the marker of the instance k (the
\* content of a file that is missing for a while is the content it comes back with)
HasMarkerLine(f, k) == \E j \in 1..Len(LinesOf(f)) : IsMarkedFor(k, LinesOf(f)[j])

\* C18: committing, at the end of every poll cycle an instance is in
\* removed_instances exactly when the file holds a line with its marker.
C18_RemovedIffMarked ==
    (~args.dry_run /\ pc = "loop" /\ states = <<>>) =>
        \A k \in PolledKeys : (k \in removed_instances) <=> HasMarkerLine(upstream, k)

\* C18's case: the cycle tried to restore "s10" while the file was missing; the
\* instance stays marked removed and the marker stays in the file
C18_Witness ==
    /\ ~args.dry_run /\ pc = "loop" /\ states = <<>>
    /\ ~upstream.exists
    /\ last.inst = Key10 /\ last.decision = "restore" /\ ~last.changed
    /\ Key10 \in removed_instances /\ HasMarkerLine(upstream, Key10)
    /\ Key1 \notin removed_instances /\ ~HasMarkerLine(upstream, Key1)

\* the REMOVED_FROM_UPSTREAM and RESTORED_TO_UPSTREAM events of the instance k
IsOutcome(e) == e.event = "REMOVED_FROM_UPSTREAM" \/ e.event = "RESTORED_TO_UPSTREAM"

OutcomeEvents(k) == SelectSeq(EventsOf(events_log, k), IsOutcome)

\* they alternate, the first being REMOVED_FROM_UPSTREAM
Alternates(k) ==
    \A i \in 1..Len(OutcomeEvents(k)) :
        OutcomeEvents(k)[i].event =
            IF i % 2 = 1 THEN "REMOVED_FROM_UPSTREAM" ELSE "RESTORED_TO_UPSTREAM"

\* every event of the kind outcome comes right after one of the kind decision
\* for the same instance
PrecededBy(outcome, decision) ==
    \A i \in 1..Len(events_log) :
        events_log[i].event = outcome =>
            /\ i > 1
            /\ events_log[i - 1].event = decision
            /\ events_log[i - 1].instance = events_log[i].instance

\* s is a prefix of t
IsPrefix(s, t) == Len(s) <= Len(t) /\ SubSeq(t, 1, Len(s)) = s

\* C19: per instance the outcome events alternate, REMOVED_FROM_UPSTREAM first;
\* each comes right after the decision event of the same instance; the log only
\* grows at its end.
C19_EventOrder ==
    /\ [](/\ \A k \in PolledKeys : Alternates(k)
          /\ PrecededBy("REMOVED_FROM_UPSTREAM", "DEGRADATION_CONFIRMED")
          /\ PrecededBy("RESTORED_TO_UPSTREAM", "HEALTHY_AGAIN"))
    /\ [][IsPrefix(events_log, events_log')]_vars

\* C19's case: "s1" was removed, restored and removed again
C19_Witness ==
    /\ Len(OutcomeEvents(Key1)) = 3
    /\ Len(events_log) = 6
    /\ events_log[6].event = "REMOVED_FROM_UPSTREAM"
    /\ events_log[4].event = "RESTORED_TO_UPSTREAM"

(***************************************************************************)
(* Two runs of main() side by side: the one of the variables, started with *)
(* --dry-run, and twin, committing, each with its own copy of the same     *)
(* upstream file, which lists both polled instances; both are fed the same *)
(* answers of the backend.                                                 *)
(***************************************************************************)
\* the file of both runs: one entry for "s1", one for "s2"
PairFile == File(TRUE, UpstreamConf(Key1, Key2))

PairInit ==
    /\ args \in {Args(TRUE, c, DefaultThreshold) : c \in Consecutives}
    /\ state_counters = <<>>
    /\ removed_instances = {}
    /\ events_log = <<>>
    /\ upstream = PairFile
    /\ twin = Monitor(<<>>, {}, <<>>, upstream)
    /\ states = <<>>
    /\ pc = "query"
    /\ polls = 0
    /\ feed = "none"
    /\ run = <<>>
    /\ last = NoPass
    /\ calls = <<>>
    /\ proc = NoProc
    /\ app = NoApp

\* the answers about the two instances both runs poll
PairAnswers == FeedAnswers(Key1, Key2)

PairPoll == PollFrom(PairAnswers)

\* the same item of states.items() goes through the loop body of both runs
PairIterate ==
    \E outcome \in ReloadOutcomes :
        /\ PassOver(outcome)
        /\ twin' = LoopBody(twin, Head(states)[1], Head(states)[2], FALSE,
                            args.threshold, args.consecutive, outcome).m

PairNext == PairPoll \/ PairIterate \/ Sleep

PairSpec == PairInit /\ [][PairNext]_vars

(***************************************************************************)
(* Properties of the two runs (specification PairSpec).                    *)
(***************************************************************************)
\* the kinds and instances of a log's events
KindsOf(log) == [i \in 1..Len(log) |-> <<log[i].event, log[i].instance>>]

\* C10 as stated: the dry run never writes the file, and it records the same
\* events (kinds and instances) and reaches the same counters and removed set as
\* the committing run.
C10_Original ==
    /\ upstream = PairFile
    /\ Passed => (last.reload = "not_called" \/ last.reload = "dry")
    /\ KindsOf(events_log) = KindsOf(twin.events_log)
    /\ state_counters = twin.state_counters
    /\ removed_instances = twin.removed_instances

(***************************************************************************)
(* main() to its end: the loop, a backend that may answer anything, an     *)
(* upstream file that may be unreadable or unwritable, and SIGTERM/SIGINT, *)
(* whose handler runs between any two statements of the main thread.       *)
(***************************************************************************)
\* the events file a former run left behind
StaleEvents == Dump(<<Event("RESTORED_TO_UPSTREAM", Key2, <<>>)>>)

LifeStarts == {Started(Absent), Started(StaleEvents)}

\* the answers of the backend: failures, bodies that are no JSON or no object,
\* envelopes and items of the wrong shape, and well-formed samples
LifeAnswers ==
    { Http("transport_error", None),
      Http("not_json", None),
      Http("ok", NonObject(TRUE)),
      Http("ok", NonObject(FALSE)),
      Http("ok", BadEnvelope("data_null")),
      Http("ok", BadEnvelope("result_null")),
      Http("ok", Envelope("error", <<BadItem("not_object")>>)),
      Http("ok", Envelope("success", <<BadItem("not_object")>>)),
      Http("ok", Envelope("success", <<Sample(Key1, "1"), BadItem("metric_null")>>)),
      Http("ok", Envelope("success", <<>>)),
      Http("ok", Envelope("success", <<Sample(Key1, "1")>>)),
      Http("ok", Envelope("success", <<Sample(Key1, "0")>>)),
      Http("ok", Envelope("success", <<Sample(Key10, "1")>>)),
      Http("ok", Envelope("success", <<Sample(Key1, "1"), Sample(Key10, "1")>>)),
      Http("ok", Envelope("success", <<Sample(Key1, "0"), Sample(Key10, "0")>>)) }

\* the answers parse_inventory_states returns from, and those it raises on
LifeParsed == {http \in LifeAnswers : ~ParseRaises(query_prom(http))}

LifeRaising == {http \in LifeAnswers : ParseRaises(query_prom(http))}

Running == proc.status = "running"

LifeInit ==
    /\ args \in {Args(d, c, DefaultThreshold) : d \in BOOLEAN, c \in Consecutives}
    /\ proc \in LifeStarts
    /\ state_counters = <<>>
    /\ removed_instances = {}
    /\ events_log = <<>>
    /\ upstream = MonitorFile
    /\ states = <<>>
    /\ pc = "query"
    /\ polls = 0
    /\ feed = "none"
    /\ run = <<>>
    /\ last = NoPass
    /\ twin = NoTwin
    /\ calls = <<>>
    /\ app = NoApp

\* the exception exc, raised by raised_by at cut, leaves the loop with the
\* state m, and the process ends
Leave(m, exc, raised_by, cut, outcome) ==
    /\ state_counters' = m.state_counters
    /\ removed_instances' = m.removed_instances
    /\ events_log' = m.events_log
    /\ upstream' = m.upstream
    /\ proc' = Ended(proc, exc, raised_by, cut, m.events_log, outcome)
    /\ UNCHANGED <<args, states, pc, polls, feed, run, last, twin, calls, app>>

\* monitor.py:198-199, the answer being one parse_inventory_states returns from
LifePoll == Running /\ PollFrom(LifeParsed)

\* monitor.py:198-199, the answer being one parse_inventory_states raises on
LifePollRaises ==
    /\ Running
    /\ pc = "query"
    /\ polls < MaxPolls
    /\ \E http \in LifeRaising :
          Leave(Mon, "error", "parse_inventory_states", "none", "none")

LifeIterate == Running /\ Iterate

LifeSleep == Running /\ Sleep

LifeVanishes == Running /\ UpstreamVanishes

LifeReturns == Running /\ UpstreamReturns

\* the editor call of the pass raises an exception that is no FileNotFoundError
EditorRaises ==
    /\ Running
    /\ pc = "loop"
    /\ states # <<>>
    /\ \E fault \in FsFaults :
          LET inst == Head(states)[1]
              val == Head(states)[2]
          IN  /\ FaultRaises(Mon, inst, val, args.dry_run, args.threshold,
                             args.consecutive, fault)
              /\ Leave(PartialBody(Mon, inst, val, args.dry_run, args.threshold,
                                   args.consecutive, FaultCut(fault)),
                       "error",
                       IF IsDegraded(val, args.threshold)
                       THEN "comment_server_in_upstream"
                       ELSE "restore_server_in_upstream",
                       FaultCut(fault), "none")

\* SIGTERM or SIGINT while main() is between two passes of the loop body, in
\* the query or asleep: _save_and_exit
SignalBetween ==
    /\ Running
    /\ \E outcome \in FlushOutcomes :
          Leave(Mon, "SystemExit", "_save_and_exit", "between", outcome)

\* SIGTERM or SIGINT while main() is inside a pass of the loop body
SignalDuring ==
    /\ Running
    /\ pc = "loop"
    /\ states # <<>>
    /\ \E cut \in Cuts, outcome \in FlushOutcomes :
          LET inst == Head(states)[1]
              val == Head(states)[2]
          IN  /\ Reaches(Mon, inst, val, args.dry_run, args.threshold,
                         args.consecutive, cut)
              /\ Leave(PartialBody(Mon, inst, val, args.dry_run, args.threshold,
                                   args.consecutive, cut),
                       "SystemExit", "_save_and_exit", cut, outcome)

LifeNext ==
    \/ LifePoll
    \/ LifePollRaises
    \/ LifeIterate
    \/ LifeSleep
    \/ LifeVanishes
    \/ LifeReturns
    \/ EditorRaises
    \/ SignalBetween
    \/ SignalDuring

LifeSpec == LifeInit /\ [][LifeNext]_vars

(***************************************************************************)
(* Properties of the process (specification LifeSpec).                     *)
(***************************************************************************)
\* the process has ended
Exited == proc.status = "exited"

\* it was ended by _save_and_exit
Signalled == Exited /\ proc.exc = "SystemExit"

\* it was ended by an exception other than the one of _save_and_exit
Crashed == Exited /\ proc.exc = "error"

\* C11 as stated: a process ended by SIGTERM/SIGINT has status 0 and has written
\* the events file exactly once, and when the write did not fail the file holds
\* the events of the log, in order, in place of what it held.
C11_Original ==
    Signalled =>
        /\ proc.code = 0
        /\ proc.flushes = 1
        /\ proc.saved = "ok" => proc.events_file = Dump(events_log)

\* C11 as amended: a process ended by SIGTERM/SIGINT has status 0; with a log
\* that is not empty it has written the events file exactly once, and the file
\* holds the events of the log when the write did not fail and what it held
\* when it could not be opened; with an empty log the file is not written and
\* holds what it held.
C11_ShutdownFlush ==
    Signalled =>
        /\ proc.code = 0
        /\ IF events_log = <<>>
           THEN proc.flushes = 0 /\ proc.events_file = proc.prior
           ELSE /\ proc.flushes = 1
                /\ proc.saved = "ok" => proc.events_file = Dump(events_log)
                /\ proc.saved = "open_fails" => proc.events_file = proc.prior

\* C11's case: the handler replaced the events of a former run by the four
\* events of this one
C11_Witness ==
    /\ Signalled /\ proc.code = 0 /\ proc.flushes = 1
    /\ proc.prior = StaleEvents /\ proc.saved = "ok"
    /\ Len(events_log) = 4
    /\ proc.events_file = Dump(events_log)

\* C12: the query and its parsing never raise, whatever the backend answers.
C12_Original == proc.raised_by # "parse_inventory_states"

\* the flushed log and the file agree about the instance k: it is marked
\* removed, its marker is in the file and its last outcome event is
\* REMOVED_FROM_UPSTREAM, or none of the three
Agree(k) ==
    LET marked == HasMarkerLine(upstream, k)
        n == Len(OutcomeEvents(k))
        logged == n > 0 /\ OutcomeEvents(k)[n].event = "REMOVED_FROM_UPSTREAM"
    IN  /\ (k \in removed_instances) <=> marked
        /\ logged <=> marked

\* C15: a committing process ended by SIGTERM/SIGINT leaves no half-written
\* file, and its removed flags and its event log agree with the file.
C15_Original ==
    (Signalled /\ ~args.dry_run) =>
        /\ upstream # EmptiedFile
        /\ \A k \in PolledKeys : Agree(k)

\* C16: no call of disable or enable raises, and none leaves a partial write.
C16_Original ==
    /\ proc.raised_by # "comment_server_in_upstream"
    /\ proc.raised_by # "restore_server_in_upstream"
    /\ upstream # EmptiedFile

\* C17: a process ended by an unexpected exception has written the events it
\* had recorded to the events file.
C17_Original ==
    (Crashed /\ events_log # <<>>) =>
        /\ proc.flushes >= 1
        /\ proc.events_file = Dump(events_log)

(***************************************************************************)
(* The monitored service: request threads of POST /admin/state             *)
(* (app.py:98-114), served concurrently.                                   *)
(***************************************************************************)
\* the request threads
Threads == {"t1", "t2"}

\* the "state" of a request body: the three states, a string that is none of
\* them, and "missing" for a body without the key (content.get gives None)
StateInputs == {"healthy", "degraded", "down", "bogus", "missing"}

\* app.py:102: new_state in STATE_VALUES
IsValidState(new_state) == new_state \in StateNames

AppInit ==
    /\ app = App("healthy", STATE_VALUES["healthy"], "free",
                 [t \in Threads |-> Thread("idle", "none", 0)], 0)
    /\ args = Args(FALSE, 1, DefaultThreshold)
    /\ state_counters = <<>>
    /\ removed_instances = {}
    /\ events_log = <<>>
    /\ upstream = MonitorFile
    /\ states = <<>>
    /\ pc = "app"
    /\ polls = 0
    /\ feed = "none"
    /\ run = <<>>
    /\ last = NoPass
    /\ twin = NoTwin
    /\ calls = <<>>
    /\ proc = NoProc

\* the thread t goes on to the position at, the service becoming a
AppStep(t, a, at, new_state, status) ==
    /\ app' = [a EXCEPT !.threads[t] = Thread(at, new_state, status)]
    /\ UNCHANGED <<args, state_counters, removed_instances, events_log, upstream, states,
                   pc, polls, feed, run, last, twin, calls, proc>>

\* app.py:100-111: the request arrives; a state that is none of the three is
\* answered 400 at once
Receive ==
    \E t \in Threads, new_state \in StateInputs :
        /\ app.threads[t].at = "idle"
        /\ app.served < MaxRequests
        /\ IF IsValidState(new_state)
           THEN AppStep(t, [app EXCEPT !.served = @ + 1], "acquire", new_state, 0)
           ELSE AppStep(t, [app EXCEPT !.served = @ + 1], "idle", new_state, 400)

\* app.py:43: "with state_lock" takes the lock
Acquire ==
    \E t \in Threads :
        /\ app.threads[t].at = "acquire"
        /\ app.state_lock = "free"
        /\ AppStep(t, [app EXCEPT !.state_lock = t], "store", app.threads[t].new_state, 0)

\* app.py:44: the state is stored and the lock released
Store ==
    \E t \in Threads :
        /\ app.threads[t].at = "store"
        /\ AppStep(t, [app EXCEPT !.service_state = app.threads[t].new_state,
                                  !.state_lock = "free"],
                   "gauge", app.threads[t].new_state, 0)

\* app.py:45: SERVICE_STATE.set(STATE_VALUES[new_state]), the lock not held
SetGauge ==
    \E t \in Threads :
        /\ app.threads[t].at = "gauge"
        /\ AppStep(t, [app EXCEPT !.SERVICE_STATE = STATE_VALUES[app.threads[t].new_state]],
                   "respond", app.threads[t].new_state, 0)

\* app.py:114: the answer 200
Respond ==
    \E t \in Threads :
        /\ app.threads[t].at = "respond"
        /\ AppStep(t, app, "idle", app.threads[t].new_state, 200)

AppNext == Receive \/ Acquire \/ Store \/ SetGauge \/ Respond

AppSpec == AppInit /\ [][AppNext]_vars

(***************************************************************************)
(* Properties of the service (specification AppSpec).                      *)
(***************************************************************************)
\* no request is being served
Quiescent == \A t \in Threads : app.threads[t].at = "idle"

\* C20: once every request has been answered the gauge is STATE_VALUES of the
\* stored state, and a request whose state is none of the three was answered
\* 400 and stored nothing.
C20_Original ==
    /\ Quiescent => app.SERVICE_STATE = STATE_VALUES[app.service_state]
    /\ \A t \in Threads :
          (app.threads[t].status # 0 /\ ~IsValidState(app.threads[t].new_state)) =>
              app.threads[t].status = 400
    /\ IsValidState(app.service_state)

====
